---- MODULE Spec2Model ----
(***************************************************************************)
(* Model of framework/scripts/wazuh_server.py: the wazuh-server process    *)
(* supervisor (start / stop, daemon launch, role paths, shutdown).         *)
(*                                                                         *)
(* Processes: the start invocations (supervisors) Sups, one stop           *)
(* invocation (StopProc), and the auxiliary daemons each supervisor        *)
(* spawns.  The lifecycle-record store (pyDaemonModule, not part of the    *)
(* script) is the set `records` of <<name, pid>> pairs.                    *)
(***************************************************************************)
EXTENDS Integers, Sequences, FiniteSets, TLC

\* ---- names (wazuh_server.py:32-39) ----
SERVER_DAEMON_NAME == "wazuh-server"
COMMS_API_DAEMON_NAME == "wazuh-comms-apid"
ENGINE_DAEMON_NAME == "wazuh-engined"
MANAGEMENT_API_DAEMON_NAME == "wazuh-apid"

\* the `daemons` dict of start_daemons, in insertion order
LaunchOrder == <<ENGINE_DAEMON_NAME, COMMS_API_DAEMON_NAME, MANAGEMENT_API_DAEMON_NAME>>
\* shutdown_server going through the daemons in the order they were launched
ShutdownOrder_as_launched == LaunchOrder
\* the `daemons` list of shutdown_server
ShutdownOrder == <<ENGINE_DAEMON_NAME, MANAGEMENT_API_DAEMON_NAME, COMMS_API_DAEMON_NAME>>
\* the `daemons` list of status
StatusNames == {SERVER_DAEMON_NAME, COMMS_API_DAEMON_NAME, MANAGEMENT_API_DAEMON_NAME,
                ENGINE_DAEMON_NAME}

Daemons == {LaunchOrder[i] : i \in 1..Len(LaunchOrder)}

\* ---- bounds ----
\* connection-loss events a follower may see
MaxLoss == 2
\* failed polls of the configuration channel per start invocation
MaxProbeFail == 1

\* ---- processes ----
Sups == {"start1", "start2"}
StopProc == "stop"
Runners == Sups \cup {StopProc}

\* os.getpid() of start invocation s
ServerPid(s) == IF s = "start1" THEN 1 ELSE 2
\* p.pid of the subprocess that start invocation s spawns for LaunchOrder[i]
DaemonPid(s, i) == 10 * ServerPid(s) + i
LaunchIndex(d) == CHOOSE i \in 1..Len(LaunchOrder) : LaunchOrder[i] = d

\* exit statuses of a process
Running == "running"
Exit0 == "exit 0"
Exit1 == "exit 1"
Killed == "SIGTERM"

VARIABLES
    pc,         \* pc[s]: position of start invocation s
    role,       \* role[s]: server_config.node.type, "none" before it is loaded
    exc,        \* exc[s]: what ended the role path of s ("none" while it runs)
    exitcode,   \* exitcode[r]: exit status of process r, Running while it has none
    records,    \* lifecycle-record store: set of <<name, pid>>
    daemon,     \* daemon[s][d]: subprocess of s for daemon d: "none", "up", "dead"
    outcome,    \* outcome[s][d]: how start_daemon classified d
    launched,   \* launched[s]: names passed to start_daemon by s, in call order
    dinit,      \* dinit[s]: daemons_initialized of worker_main
    sigterm,    \* pids with a delivered, not yet acted upon SIGTERM
    sd,         \* sd[r]: position of r inside shutdown_server ("off" outside)
    sdi,        \* sdi[r]: daemons of ShutdownOrder already handled by r
    sdpid,      \* sdpid[r]: the server_pid argument of shutdown_server
    quiet,      \* quiet[r]: no daemon was running when r called shutdown_server
    signalled,  \* signalled[r]: names r sent SIGTERM to, in order
    seenGone,   \* seenGone[r]: the wait loop of r saw no daemon running
    runs,       \* runs[s]: calls of shutdown_server made by start invocation s
    spc,        \* position of the stop invocation
    afterStart, \* the stop invocation found a server that had finished starting up
    cnt         \* cnt[s]: counters of s (role dispatches, attempts, sleeps, losses, ...)

vars == <<pc, role, exc, exitcode, records, daemon, outcome, launched, dinit, sigterm,
          sd, sdi, sdpid, quiet, signalled, seenGone, runs, spc, afterStart, cnt>>

\* ---- processes and the process table ----
SupAlive(s) == pc[s] \notin {"off", "idle", "exited", "killed"}

\* the daemon subprocesses that are running, as <<supervisor, name>>
UpDaemons == {p \in Sups \X Daemons : daemon[p[1]][p[2]] = "up"}

PidOf(p) == DaemonPid(p[1], LaunchIndex(p[2]))

AlivePids ==
    {ServerPid(s) : s \in {t \in Sups : SupAlive(t)}} \cup {PidOf(p) : p \in UpDaemons}

Alive(pid) == pid \in AlivePids

\* names of the processes that are running
RunningNames ==
    {SERVER_DAEMON_NAME : s \in {t \in Sups : SupAlive(t)}}
    \cup {p[2] : p \in UpDaemons}

\* ---- lifecycle-record store (pyDaemonModule) ----
create_pid(recs, name, pid) == recs \cup {<<name, pid>>}

delete_pid(recs, name, pid) == recs \ {<<name, pid>>}

\* lookup(name): the pids recorded for name (empty: no record, None)
get_parent_pid(name) == {r[2] : r \in {q \in records : q[1] = name}}

\* the supervisor's record that references a live process (empty: StopIteration)
get_wazuh_server_pid(name) == {p \in get_parent_pid(name) : Alive(p)}

\* list-running(): names currently live
get_running_processes == RunningNames

check_for_daemons_shutdown(daemons) == \E d \in daemons : d \in get_running_processes

\* orphaned records of name: those whose process is gone
clean_pid_files(recs, name) == {r \in recs : ~(r[1] = name /\ ~Alive(r[2]))}

\* the live children of server process ppid, which delete_child_pids terminates
delete_child_pids(ppid) ==
    {PidOf(p) : p \in {q \in UpDaemons : ServerPid(q[1]) = ppid /\ SupAlive(q[1])}}

\* ---- initial states ----
ZeroCnt ==
    [attempts |-> 0, sleeps |-> 0, losses |-> 0, launchAll |-> 0, idx |-> 0, polls |-> 0,
     infos |-> 0, warns |-> 0, roles |-> 0]

InitCommon ==
    /\ role = [s \in Sups |-> "none"]
    /\ exc = [s \in Sups |-> "none"]
    /\ exitcode = [r \in Runners |-> Running]
    /\ records = {}
    /\ daemon = [s \in Sups |-> [d \in Daemons |-> "none"]]
    /\ outcome = [s \in Sups |-> [d \in Daemons |-> "none"]]
    /\ launched = [s \in Sups |-> <<>>]
    /\ dinit = [s \in Sups |-> FALSE]
    /\ sigterm = {}
    /\ sd = [r \in Runners |-> "off"]
    /\ sdi = [r \in Runners |-> 0]
    /\ sdpid = [r \in Runners |-> 0]
    /\ quiet = [r \in Runners |-> FALSE]
    /\ signalled = [r \in Runners |-> <<>>]
    /\ seenGone = [r \in Runners |-> FALSE]
    /\ runs = [s \in Sups |-> 0]
    /\ spc = "idle"
    /\ afterStart = FALSE
    /\ cnt = [s \in Sups |-> ZeroCnt]

\* one start invocation on the node
Init == InitCommon /\ pc = [s \in Sups |-> IF s = "start1" THEN "idle" ELSE "off"]

\* two start invocations on the same node
InitRace == InitCommon /\ pc = [s \in Sups |-> "idle"]

\* ---- start(): up to the dispatch of the role path ----

\* start, lines 339-345: the already-running check
start_check(s) ==
    /\ pc[s] = "idle"
    /\ IF get_wazuh_server_pid(SERVER_DAEMON_NAME) # {}
         THEN /\ pc' = [pc EXCEPT ![s] = "exited"]
              /\ exitcode' = [exitcode EXCEPT ![s] = Exit1]
         ELSE /\ pc' = [pc EXCEPT ![s] = "config"]
              /\ UNCHANGED exitcode
    /\ UNCHANGED <<role, exc, records, daemon, outcome, launched, dinit, sigterm, sd, sdi,
                   sdpid, quiet, signalled, seenGone, runs, spc, afterStart, cnt>>

\* start, lines 347-351: CentralizedConfig.get_server_config()
load_config(s) ==
    /\ pc[s] = "config"
    /\ \/ /\ pc' = [pc EXCEPT ![s] = "exited"]
          /\ exitcode' = [exitcode EXCEPT ![s] = Exit1]
          /\ UNCHANGED role
       \/ \E t \in {"master", "worker"} :
              /\ role' = [role EXCEPT ![s] = t]
              /\ pc' = [pc EXCEPT ![s] = "prepare"]
              /\ UNCHANGED exitcode
    /\ UNCHANGED <<exc, records, daemon, outcome, launched, dinit, sigterm, sd, sdi, sdpid, quiet,
                   signalled, seenGone, runs, spc, afterStart, cnt>>

\* start, lines 353-369: clean-up, privilege drop, the supervisor's own record
start_prepare(s) ==
    /\ pc[s] = "prepare"
    /\ \/ \* os.setgid / os.setuid raises: outside any try, the process ends
          /\ records' = clean_pid_files(records, SERVER_DAEMON_NAME)
          /\ pc' = [pc EXCEPT ![s] = "exited"]
          /\ exitcode' = [exitcode EXCEPT ![s] = Exit1]
       \/ /\ records' = create_pid(clean_pid_files(records, SERVER_DAEMON_NAME),
                                    SERVER_DAEMON_NAME, ServerPid(s))
          /\ pc' = [pc EXCEPT ![s] = "keypair"]
          /\ UNCHANGED exitcode
    /\ UNCHANGED <<role, exc, daemon, outcome, launched, dinit, sigterm, sd, sdi, sdpid, quiet,
                   signalled, seenGone, runs, spc, afterStart, cnt>>

\* start, lines 371-379: choice of main_function, JWT key pair on a master
start_keypair(s) ==
    /\ pc[s] = "keypair"
    /\ \/ /\ pc' = [pc EXCEPT ![s] = "dispatch"]
          /\ UNCHANGED exitcode
       \/ \* keypair_exists() / generate_keypair() raises: outside the try of line 383
          /\ role[s] = "master"
          /\ pc' = [pc EXCEPT ![s] = "exited"]
          /\ exitcode' = [exitcode EXCEPT ![s] = Exit1]
    /\ UNCHANGED <<role, exc, records, daemon, outcome, launched, dinit, sigterm, sd, sdi,
                   sdpid, quiet, signalled, seenGone, runs, spc, afterStart, cnt>>

\* start, lines 382-386: the event loop runs main_function
start_dispatch(s) ==
    /\ pc[s] = "dispatch"
    /\ pc' = [pc EXCEPT ![s] = "probe"]
    /\ cnt' = [cnt EXCEPT ![s].roles = @ + 1]
    /\ UNCHANGED <<role, exc, exitcode, records, daemon, outcome, launched, dinit, sigterm,
                   sd, sdi, sdpid, quiet, signalled, seenGone, runs, spc, afterStart>>

\* start with shutdown_server called from the except clauses instead of a finally
\* clause: an error no clause catches ends the process without it
start_finally_in_except(s, e) ==
    IF e \in {"KeyboardInterrupt", "MemoryError", "WazuhDaemonError", "Exception"}
    THEN /\ pc' = [pc EXCEPT ![s] = "shutdown"]
         /\ exc' = [exc EXCEPT ![s] = e]
         /\ runs' = [runs EXCEPT ![s] = @ + 1]
         /\ sd' = [sd EXCEPT ![s] = "daemons"]
         /\ sdi' = [sdi EXCEPT ![s] = 0]
         /\ sdpid' = [sdpid EXCEPT ![s] = ServerPid(s)]
         /\ quiet' = [quiet EXCEPT ![s] = (UpDaemons = {})]
    ELSE /\ pc' = [pc EXCEPT ![s] = "exited"]
         /\ exc' = [exc EXCEPT ![s] = e]
         /\ UNCHANGED <<runs, sd, sdi, sdpid, quiet>>

\* start, lines 387-396: the except clauses log e, the finally clause calls
\* shutdown_server(server_pid)
start_finally(s, e) ==
    /\ pc' = [pc EXCEPT ![s] = "shutdown"]
    /\ exc' = [exc EXCEPT ![s] = e]
    /\ runs' = [runs EXCEPT ![s] = @ + 1]
    /\ sd' = [sd EXCEPT ![s] = "daemons"]
    /\ sdi' = [sdi EXCEPT ![s] = 0]
    /\ sdpid' = [sdpid EXCEPT ![s] = ServerPid(s)]
    /\ quiet' = [quiet EXCEPT ![s] = (UpDaemons = {})]

\* the exceptions the except clauses of start catch (lines 387-394)
Handled == {"KeyboardInterrupt", "MemoryError", "WazuhDaemonError", "Exception"}

\* ---- role paths: master_main and worker_main ----

\* the readiness loop giving up after a failed poll: the role path goes on without
\* a successful poll
readiness_probe_timeout(s) ==
    /\ pc[s] = "probe"
    /\ \/ /\ cnt[s].infos < MaxProbeFail
          /\ cnt' = [cnt EXCEPT ![s].polls = @ + 1, ![s].infos = @ + 1]
          /\ pc' = [pc EXCEPT ![s] = "tasks"]
       \/ \E shm \in IF role[s] = "worker" THEN BOOLEAN ELSE {TRUE} :
              /\ cnt' = [cnt EXCEPT ![s].polls = @ + 1,
                                    ![s].warns = IF shm THEN @ ELSE @ + 2]
              /\ pc' = [pc EXCEPT ![s] = "tasks"]
    /\ UNCHANGED <<role, exc, exitcode, records, daemon, outcome, launched, dinit, sigterm,
                   sd, sdi, sdpid, quiet, signalled, seenGone, runs, spc, afterStart>>

\* master_main lines 174-180, worker_main lines 231-252: one poll of the
\* configuration socket (ping_unix_socket). A failed poll logs one line with
\* main_logger.info and sleeps; after the successful poll worker_main builds its
\* process pool and logs two warnings when /dev/shm is not accessible (shm false)
readiness_probe(s) ==
    /\ pc[s] = "probe"
    /\ \/ /\ cnt[s].infos < MaxProbeFail
          /\ cnt' = [cnt EXCEPT ![s].polls = @ + 1, ![s].infos = @ + 1]
          /\ UNCHANGED pc
       \/ \E shm \in IF role[s] = "worker" THEN BOOLEAN ELSE {TRUE} :
              /\ cnt' = [cnt EXCEPT ![s].polls = @ + 1,
                                    ![s].warns = IF shm THEN @ ELSE @ + 2]
              /\ pc' = [pc EXCEPT ![s] = "tasks"]
    /\ UNCHANGED <<role, exc, exitcode, records, daemon, outcome, launched, dinit, sigterm,
                   sd, sdi, sdpid, quiet, signalled, seenGone, runs, spc, afterStart>>

\* worker_main without the daemons_initialized test of line 283: the daemons are
\* launched in every iteration
role_tasks_relaunch(s) ==
    /\ pc[s] = "tasks"
    /\ \/ /\ pc' = [pc EXCEPT ![s] = "daemons"]
          /\ cnt' = [cnt EXCEPT ![s].attempts = @ + 1, ![s].launchAll = @ + 1, ![s].idx = 0]
          /\ UNCHANGED <<exc, runs, sd, sdi, sdpid, quiet>>
       \/ \E e \in {"Exception", "MemoryError"} :
              /\ start_finally(s, e)
              /\ UNCHANGED cnt
    /\ UNCHANGED <<role, exitcode, records, daemon, outcome, launched, dinit, sigterm,
                   signalled, seenGone, spc, afterStart>>

\* master_main lines 182-204, worker_main lines 257-283: the network process and
\* its local-control companion are built and their tasks created
role_tasks(s) ==
    /\ pc[s] = "tasks"
    /\ \/ /\ IF role[s] = "master" \/ ~dinit[s]
                THEN /\ pc' = [pc EXCEPT ![s] = "daemons"]
                     /\ cnt' = [cnt EXCEPT ![s].attempts = @ + 1, ![s].launchAll = @ + 1,
                                           ![s].idx = 0]
                ELSE /\ pc' = [pc EXCEPT ![s] = "gather"]
                     /\ cnt' = [cnt EXCEPT ![s].attempts = @ + 1]
          /\ UNCHANGED <<exc, runs, sd, sdi, sdpid, quiet>>
       \/ \E e \in {"Exception", "MemoryError"} :
              /\ start_finally(s, e)
              /\ UNCHANGED cnt
    /\ UNCHANGED <<role, exitcode, records, daemon, outcome, launched, dinit, sigterm,
                   signalled, seenGone, spc, afterStart>>

\* the ways subprocess.Popen(args) followed by p.wait(timeout=2) can end
LaunchResults == {"spawn_error", "exit_nonzero", "exit_zero", "timeout"}

\* start_daemon without the returncode test of lines 86-87: only a failed spawn
\* raises
LaunchRaises_spawn_only(res) == res = "spawn_error"

\* start_daemon raising for every process that ends within the two seconds,
\* whatever its return code
LaunchRaises_any_exit(res) == res \in {"spawn_error", "exit_nonzero", "exit_zero"}

\* start_daemon raises WazuhDaemonError (lines 86-87, 93-94)
LaunchRaises(res) == res \in {"spawn_error", "exit_nonzero"}

\* start_daemon writing the engine's record right after Popen, before the wait
\* has shown that the process stays up
start_daemon_record_early(s, name, res) ==
    /\ launched' = [launched EXCEPT ![s] = Append(@, name)]
    /\ daemon' = [daemon EXCEPT ![s][name] =
                     CASE res = "timeout" -> "up"
                       [] res = "spawn_error" -> @
                       [] OTHER -> "dead"]
    /\ outcome' = [outcome EXCEPT ![s][name] =
                     CASE res = "timeout" -> "started"
                       [] res = "exit_zero" -> "exit0"
                       [] OTHER -> "failed"]
    /\ records' = IF res # "spawn_error" /\ name = ENGINE_DAEMON_NAME
                    THEN create_pid(records, ENGINE_DAEMON_NAME,
                                    DaemonPid(s, LaunchIndex(name)))
                    ELSE records

\* start_daemon(name, args), lines 68-94, when the subprocess ends as res
start_daemon(s, name, res) ==
    /\ launched' = [launched EXCEPT ![s] = Append(@, name)]
    /\ daemon' = [daemon EXCEPT ![s][name] =
                     CASE res = "timeout" -> "up"
                       [] res = "spawn_error" -> @
                       [] OTHER -> "dead"]
    /\ outcome' = [outcome EXCEPT ![s][name] =
                     CASE res = "timeout" -> "started"
                       [] res = "exit_zero" -> "exit0"
                       [] OTHER -> "failed"]
    /\ records' = IF res = "timeout" /\ name = ENGINE_DAEMON_NAME
                    THEN create_pid(records, ENGINE_DAEMON_NAME,
                                    DaemonPid(s, LaunchIndex(name)))
                    ELSE records

\* start_daemons with the error of a launch logged instead of raised: the loop
\* goes on to the next daemon
start_daemons_continue(s) ==
    /\ pc[s] = "daemons"
    /\ cnt[s].idx < Len(LaunchOrder)
    /\ \E res \in LaunchResults :
          /\ start_daemon(s, LaunchOrder[cnt[s].idx + 1], res)
          /\ cnt' = [cnt EXCEPT ![s].idx = @ + 1]
          /\ IF cnt[s].idx + 1 = Len(LaunchOrder)
               THEN /\ pc' = [pc EXCEPT ![s] = "gather"]
                    /\ dinit' = [dinit EXCEPT ![s] = (role[s] = "worker")]
               ELSE UNCHANGED <<pc, dinit>>
          /\ UNCHANGED <<exc, runs, sd, sdi, sdpid, quiet>>
    /\ UNCHANGED <<role, exitcode, sigterm, signalled, seenGone, spc, afterStart>>

\* start_daemons(root), lines 97-116: one turn of the loop over the daemons dict;
\* after the last one worker_main sets daemons_initialized (line 286)
start_daemons(s) ==
    /\ pc[s] = "daemons"
    /\ cnt[s].idx < Len(LaunchOrder)
    /\ \E res \in LaunchResults :
          /\ start_daemon(s, LaunchOrder[cnt[s].idx + 1], res)
          /\ IF LaunchRaises(res)
               THEN /\ start_finally(s, "WazuhDaemonError")
                    /\ UNCHANGED <<cnt, dinit>>
               ELSE /\ cnt' = [cnt EXCEPT ![s].idx = @ + 1]
                    /\ IF cnt[s].idx + 1 = Len(LaunchOrder)
                         THEN /\ pc' = [pc EXCEPT ![s] = "gather"]
                              /\ dinit' = [dinit EXCEPT ![s] = (role[s] = "worker")]
                         ELSE UNCHANGED <<pc, dinit>>
                    /\ UNCHANGED <<exc, runs, sd, sdi, sdpid, quiet>>
    /\ UNCHANGED <<role, exitcode, sigterm, signalled, seenGone, spc, afterStart>>

\* worker_main catching Exception where it catches asyncio.CancelledError: an
\* error of a role task is retried like a lost connection
task_error_retried(s) ==
    /\ pc[s] = "gather"
    /\ IF role[s] = "worker"
         THEN /\ pc' = [pc EXCEPT ![s] = "retry"]
              /\ UNCHANGED <<exc, runs, sd, sdi, sdpid, quiet>>
         ELSE \E e \in {"Exception", "MemoryError"} : start_finally(s, e)
    /\ UNCHANGED <<role, exitcode, records, daemon, outcome, launched, dinit, sigterm,
                   signalled, seenGone, spc, afterStart, cnt>>

\* asyncio.gather(*tasks) raises an error of one of the role tasks
\* (master_main line 209, worker_main line 288)
task_error(s) ==
    /\ pc[s] = "gather"
    /\ \E e \in {"Exception", "MemoryError"} : start_finally(s, e)
    /\ UNCHANGED <<role, exitcode, records, daemon, outcome, launched, dinit, sigterm,
                   signalled, seenGone, spc, afterStart, cnt>>

\* asyncio.gather(*tasks) is cancelled: the connection with the master was lost.
\* worker_main catches it (lines 289-290); master_main lets it through
task_cancelled(s) ==
    /\ pc[s] = "gather"
    /\ IF role[s] = "worker"
         THEN /\ cnt[s].losses < MaxLoss
              /\ cnt' = [cnt EXCEPT ![s].losses = @ + 1]
              /\ pc' = [pc EXCEPT ![s] = "retry"]
              /\ UNCHANGED <<exc, runs, sd, sdi, sdpid, quiet>>
         ELSE /\ start_finally(s, "CancelledError")
              /\ UNCHANGED cnt
    /\ UNCHANGED <<role, exitcode, records, daemon, outcome, launched, dinit, sigterm,
                   signalled, seenGone, spc, afterStart>>

\* worker_main with the readiness loop inside the `while True` loop: every
\* iteration polls the configuration socket again
retry_sleep_reprobe(s) ==
    /\ pc[s] = "retry"
    /\ cnt' = [cnt EXCEPT ![s].sleeps = @ + 1]
    /\ pc' = [pc EXCEPT ![s] = "probe"]
    /\ UNCHANGED <<role, exc, exitcode, records, daemon, outcome, launched, dinit, sigterm,
                   sd, sdi, sdpid, quiet, signalled, seenGone, runs, spc, afterStart>>

\* worker_main line 291: asyncio.sleep(connection_retry) ends, the loop goes round
retry_sleep(s) ==
    /\ pc[s] = "retry"
    /\ cnt' = [cnt EXCEPT ![s].sleeps = @ + 1]
    /\ pc' = [pc EXCEPT ![s] = "tasks"]
    /\ UNCHANGED <<role, exc, exitcode, records, daemon, outcome, launched, dinit, sigterm,
                   sd, sdi, sdpid, quiet, signalled, seenGone, runs, spc, afterStart>>

\* SIGINT while the event loop runs main_function (line 386): KeyboardInterrupt
keyboard_interrupt(s) ==
    /\ pc[s] \in {"probe", "tasks", "daemons", "gather", "retry"}
    /\ start_finally(s, "KeyboardInterrupt")
    /\ UNCHANGED <<role, exitcode, records, daemon, outcome, launched, dinit, sigterm,
                   signalled, seenGone, spc, afterStart, cnt>>

\* ---- shutdown_server(server_pid) ----

\* r is inside its call of shutdown_server
InShutdown(r) == IF r = StopProc THEN spc = "shutdown" ELSE pc[r] = "shutdown"

\* an exception leaves shutdown_server and ends process r (nothing catches it)
shutdown_raises(r) ==
    /\ sd' = [sd EXCEPT ![r] = "raised"]
    /\ exitcode' = [exitcode EXCEPT ![r] = Exit1]
    /\ IF r = StopProc
         THEN spc' = "raised" /\ UNCHANGED pc
         ELSE pc' = [pc EXCEPT ![r] = "exited"] /\ UNCHANGED spc

\* shutdown_daemon without the delete_pid of lines 132-133: the engine's record
\* is left in the store
shutdown_daemon_keep_record(r) ==
    /\ InShutdown(r)
    /\ sd[r] = "daemons"
    /\ LET name == ShutdownOrder[sdi[r] + 1]
           advance ==
               /\ sdi' = [sdi EXCEPT ![r] = @ + 1]
               /\ sd' = [sd EXCEPT ![r] = IF sdi[r] + 1 = Len(ShutdownOrder)
                                            THEN "wait" ELSE "daemons"]
               /\ UNCHANGED <<pc, spc, exitcode>>
       IN  \/ /\ get_parent_pid(name) = {}
              /\ advance
              /\ UNCHANGED <<sigterm, signalled, records>>
           \/ \E ppid \in get_parent_pid(name) :
                 IF Alive(ppid)
                 THEN /\ sigterm' = sigterm \cup {ppid}
                      /\ signalled' = [signalled EXCEPT ![r] = Append(@, name)]
                      /\ UNCHANGED records
                      /\ advance
                 ELSE /\ shutdown_raises(r)
                      /\ UNCHANGED <<sigterm, signalled, records, sdi>>
    /\ UNCHANGED <<role, exc, daemon, outcome, launched, dinit, sdpid, quiet, seenGone, runs,
                   afterStart, cnt>>

\* shutdown_daemon(name), lines 119-133, called for the next name of the list of
\* shutdown_server (lines 144-146); os.kill raises ProcessLookupError for a dead pid
shutdown_daemon(r) ==
    /\ InShutdown(r)
    /\ sd[r] = "daemons"
    /\ LET name == ShutdownOrder[sdi[r] + 1]
           advance ==
               /\ sdi' = [sdi EXCEPT ![r] = @ + 1]
               /\ sd' = [sd EXCEPT ![r] = IF sdi[r] + 1 = Len(ShutdownOrder)
                                            THEN "wait" ELSE "daemons"]
               /\ UNCHANGED <<pc, spc, afterStart, exitcode>>
       IN  \/ /\ get_parent_pid(name) = {}
              /\ advance
              /\ UNCHANGED <<sigterm, signalled, records>>
           \/ \E ppid \in get_parent_pid(name) :
                 IF Alive(ppid)
                 THEN /\ sigterm' = sigterm \cup {ppid}
                      /\ signalled' = [signalled EXCEPT ![r] = Append(@, name)]
                      /\ records' = IF name = ENGINE_DAEMON_NAME
                                      THEN delete_pid(records, name, ppid)
                                      ELSE records
                      /\ advance
                 ELSE /\ shutdown_raises(r)
                      /\ UNCHANGED <<sigterm, signalled, records, sdi>>
    /\ UNCHANGED <<role, exc, daemon, outcome, launched, dinit, sdpid, quiet, seenGone, runs,
                   afterStart, cnt>>

\* the wait of shutdown_server as an `if` instead of a `while`: one sleep at most
wait_for_daemons_once(r) ==
    /\ InShutdown(r)
    /\ sd[r] = "wait"
    /\ sd' = [sd EXCEPT ![r] = "reap"]
    /\ seenGone' = [seenGone EXCEPT ![r] = ~check_for_daemons_shutdown(Daemons)]
    /\ UNCHANGED <<pc, role, exc, exitcode, records, daemon, outcome, launched, dinit,
                   sigterm, sdi, sdpid, quiet, signalled, runs, spc, afterStart, cnt>>

\* shutdown_server lines 148-150: one poll of the wait loop
wait_for_daemons(r) ==
    /\ InShutdown(r)
    /\ sd[r] = "wait"
    /\ IF check_for_daemons_shutdown(Daemons)
         THEN UNCHANGED <<sd, seenGone>>
         ELSE /\ sd' = [sd EXCEPT ![r] = "reap"]
              /\ seenGone' = [seenGone EXCEPT ![r] = TRUE]
    /\ UNCHANGED <<pc, role, exc, exitcode, records, daemon, outcome, launched, dinit,
                   sigterm, sdi, sdpid, quiet, signalled, runs, spc, afterStart, cnt>>

\* shutdown_server lines 152-154: the server's children are terminated and the
\* server's record deleted
terminate_cluster(r) ==
    /\ InShutdown(r)
    /\ sd[r] = "reap"
    /\ sigterm' = sigterm \cup delete_child_pids(sdpid[r])
    /\ records' = delete_pid(records, SERVER_DAEMON_NAME, sdpid[r])
    /\ sd' = [sd EXCEPT ![r] = "done"]
    /\ UNCHANGED <<pc, role, exc, exitcode, daemon, outcome, launched, dinit, sdi, sdpid, quiet,
                   signalled, seenGone, runs, spc, afterStart, cnt>>

\* start ending with sys.exit(1) after every error of the role path, caught or not
start_return_nonzero(s) ==
    /\ pc[s] = "shutdown"
    /\ sd[s] = "done"
    /\ pc' = [pc EXCEPT ![s] = "exited"]
    /\ exitcode' = [exitcode EXCEPT ![s] = Exit1]
    /\ UNCHANGED <<role, exc, records, daemon, outcome, launched, dinit, sigterm, sd, sdi,
                   sdpid, quiet, signalled, seenGone, runs, spc, afterStart, cnt>>

\* start: shutdown_server has returned to the finally clause (line 396); start
\* returns when an except clause caught the error, else the error goes on
start_return(s) ==
    /\ pc[s] = "shutdown"
    /\ sd[s] = "done"
    /\ pc' = [pc EXCEPT ![s] = "exited"]
    /\ exitcode' = [exitcode EXCEPT ![s] = IF exc[s] \in Handled THEN Exit0 ELSE Exit1]
    /\ UNCHANGED <<role, exc, records, daemon, outcome, launched, dinit, sigterm, sd, sdi,
                   sdpid, quiet, signalled, seenGone, runs, spc, afterStart, cnt>>

\* ---- stop() ----

\* start invocation s has launched its daemons and runs (or re-runs) its role tasks
Started(s) == pc[s] = "gather" \/ (dinit[s] /\ pc[s] \in {"retry", "tasks"})

\* stop lines 401-407: look the server up, then call shutdown_server
stop_lookup ==
    /\ spc = "idle"
    /\ \/ /\ get_wazuh_server_pid(SERVER_DAEMON_NAME) = {}
          /\ spc' = "exited"
          /\ exitcode' = [exitcode EXCEPT ![StopProc] = Exit0]
          /\ UNCHANGED <<sd, sdi, sdpid, quiet, afterStart>>
       \/ \E server_pid \in get_wazuh_server_pid(SERVER_DAEMON_NAME) :
              /\ spc' = "shutdown"
              /\ sd' = [sd EXCEPT ![StopProc] = "daemons"]
              /\ sdi' = [sdi EXCEPT ![StopProc] = 0]
              /\ sdpid' = [sdpid EXCEPT ![StopProc] = server_pid]
              /\ quiet' = [quiet EXCEPT ![StopProc] = (UpDaemons = {})]
              /\ afterStart' = \E s \in Sups : ServerPid(s) = server_pid /\ Started(s)
              /\ UNCHANGED exitcode
    /\ UNCHANGED <<pc, role, exc, records, daemon, outcome, launched, dinit, sigterm,
                   signalled, seenGone, runs, cnt>>

\* stop sending its final signal to the server without waiting for
\* shutdown_server to return
stop_kill_early ==
    /\ spc = "shutdown"
    /\ IF Alive(sdpid[StopProc])
         THEN /\ sigterm' = sigterm \cup {sdpid[StopProc]}
              /\ spc' = "done"
              /\ exitcode' = [exitcode EXCEPT ![StopProc] = Exit0]
         ELSE /\ spc' = "raised"
              /\ exitcode' = [exitcode EXCEPT ![StopProc] = Exit1]
              /\ UNCHANGED sigterm
    /\ UNCHANGED <<pc, role, exc, records, daemon, outcome, launched, dinit, sd, sdi, sdpid,
                   quiet, signalled, seenGone, runs, afterStart, cnt>>

\* stop line 408: os.kill(server_pid, signal.SIGTERM)
stop_kill ==
    /\ spc = "shutdown"
    /\ sd[StopProc] = "done"
    /\ IF Alive(sdpid[StopProc])
         THEN /\ sigterm' = sigterm \cup {sdpid[StopProc]}
              /\ spc' = "done"
              /\ exitcode' = [exitcode EXCEPT ![StopProc] = Exit0]
         ELSE /\ spc' = "raised"
              /\ exitcode' = [exitcode EXCEPT ![StopProc] = Exit1]
              /\ UNCHANGED sigterm
    /\ UNCHANGED <<pc, role, exc, records, daemon, outcome, launched, dinit, sd, sdi, sdpid, quiet,
                   signalled, seenGone, runs, afterStart, cnt>>

\* ---- the processes themselves ----

\* a running daemon subprocess ends on its own
daemon_exit(s, d) ==
    /\ daemon[s][d] = "up"
    /\ DaemonPid(s, LaunchIndex(d)) \notin sigterm
    /\ daemon' = [daemon EXCEPT ![s][d] = "dead"]
    /\ UNCHANGED <<pc, role, exc, exitcode, records, outcome, launched, dinit, sigterm, sd,
                   sdi, sdpid, quiet, signalled, seenGone, runs, spc, afterStart, cnt>>

\* a running daemon subprocess acts on a delivered SIGTERM
daemon_sigterm(s, d) ==
    /\ daemon[s][d] = "up"
    /\ DaemonPid(s, LaunchIndex(d)) \in sigterm
    /\ daemon' = [daemon EXCEPT ![s][d] = "dead"]
    /\ sigterm' = sigterm \ {DaemonPid(s, LaunchIndex(d))}
    /\ UNCHANGED <<pc, role, exc, exitcode, records, outcome, launched, dinit, sd, sdi,
                   sdpid, quiet, signalled, seenGone, runs, spc, afterStart, cnt>>

\* a start invocation is ended by a delivered SIGTERM (no handler is installed)
server_sigterm(s) ==
    /\ SupAlive(s)
    /\ ServerPid(s) \in sigterm
    /\ pc' = [pc EXCEPT ![s] = "killed"]
    /\ exitcode' = [exitcode EXCEPT ![s] = Killed]
    /\ sigterm' = sigterm \ {ServerPid(s)}
    /\ UNCHANGED <<role, exc, records, daemon, outcome, launched, dinit, sd, sdi, sdpid, quiet,
                   signalled, seenGone, runs, spc, afterStart, cnt>>

Next ==
    \/ \E s \in Sups : start_check(s)
    \/ \E s \in Sups : load_config(s)
    \/ \E s \in Sups : start_prepare(s)
    \/ \E s \in Sups : start_keypair(s)
    \/ \E s \in Sups : start_dispatch(s)
    \/ \E s \in Sups : readiness_probe(s)
    \/ \E s \in Sups : role_tasks(s)
    \/ \E s \in Sups : start_daemons(s)
    \/ \E s \in Sups : task_error(s)
    \/ \E s \in Sups : task_cancelled(s)
    \/ \E s \in Sups : retry_sleep(s)
    \/ \E s \in Sups : keyboard_interrupt(s)
    \/ \E r \in Runners : shutdown_daemon(r)
    \/ \E r \in Runners : wait_for_daemons(r)
    \/ \E r \in Runners : terminate_cluster(r)
    \/ \E s \in Sups : start_return(s)
    \/ stop_lookup
    \/ stop_kill
    \/ \E s \in Sups, d \in Daemons : daemon_exit(s, d)
    \/ \E s \in Sups, d \in Daemons : daemon_sigterm(s, d)
    \/ \E s \in Sups : server_sigterm(s)

Spec == Init /\ [][Next]_vars

\* two start invocations, followed up to the readiness gate of the role path
NextRace ==
    \/ \E s \in Sups : start_check(s)
    \/ \E s \in Sups : load_config(s)
    \/ \E s \in Sups : start_prepare(s)
    \/ \E s \in Sups : start_keypair(s)
    \/ \E s \in Sups : start_dispatch(s)
    \/ \E s \in Sups : readiness_probe(s)
    \/ \E s \in Sups : keyboard_interrupt(s)
    \/ \E r \in Sups : shutdown_daemon(r)
    \/ \E r \in Sups : wait_for_daemons(r)
    \/ \E r \in Sups : terminate_cluster(r)
    \/ \E s \in Sups : start_return(s)

SpecRace == InitRace /\ [][NextRace]_vars

\* shutdown_server(server_pid) as called by the finally clause of a master that
\* had launched its three daemons, for every set of daemons still running and
\* every set of daemon records in the store (the engine's is written by
\* start_daemon, the API daemons' by the daemons' own scripts, if at all)
InitShutdown ==
    /\ pc = [s \in Sups |-> IF s = "start1" THEN "shutdown" ELSE "off"]
    /\ role = [s \in Sups |-> IF s = "start1" THEN "master" ELSE "none"]
    /\ exc = [s \in Sups |-> IF s = "start1" THEN "KeyboardInterrupt" ELSE "none"]
    /\ exitcode = [r \in Runners |-> Running]
    /\ \E live \in SUBSET Daemons :
          /\ daemon = [s \in Sups |-> [d \in Daemons |->
                           IF s # "start1" THEN "none"
                           ELSE IF d \in live THEN "up" ELSE "dead"]]
          /\ quiet = [r \in Runners |-> r = "start1" /\ live = {}]
    /\ \E recorded \in SUBSET Daemons :
          records = {<<SERVER_DAEMON_NAME, ServerPid("start1")>>}
                    \cup {<<d, DaemonPid("start1", LaunchIndex(d))>> : d \in recorded}
    /\ outcome = [s \in Sups |-> [d \in Daemons |->
                      IF s = "start1" THEN "started" ELSE "none"]]
    /\ launched = [s \in Sups |-> IF s = "start1" THEN LaunchOrder ELSE <<>>]
    /\ dinit = [s \in Sups |-> FALSE]
    /\ sigterm = {}
    /\ sd = [r \in Runners |-> IF r = "start1" THEN "daemons" ELSE "off"]
    /\ sdi = [r \in Runners |-> 0]
    /\ sdpid = [r \in Runners |-> IF r = "start1" THEN ServerPid("start1") ELSE 0]
    /\ signalled = [r \in Runners |-> <<>>]
    /\ seenGone = [r \in Runners |-> FALSE]
    /\ runs = [s \in Sups |-> IF s = "start1" THEN 1 ELSE 0]
    /\ spc = "idle"
    /\ afterStart = FALSE
    /\ cnt = [s \in Sups |->
                 IF s = "start1"
                 THEN [ZeroCnt EXCEPT !.roles = 1, !.polls = 1, !.attempts = 1,
                                      !.launchAll = 1, !.idx = Len(LaunchOrder)]
                 ELSE ZeroCnt]

NextShutdown ==
    \/ \E r \in Sups : shutdown_daemon(r)
    \/ \E r \in Sups : wait_for_daemons(r)
    \/ \E r \in Sups : terminate_cluster(r)
    \/ \E s \in Sups : start_return(s)
    \/ \E s \in Sups, d \in Daemons : daemon_exit(s, d)
    \/ \E s \in Sups, d \in Daemons : daemon_sigterm(s, d)

SpecShutdown == InitShutdown /\ [][NextShutdown]_vars

\* SpecShutdown with a process that keeps running its sequential code, and with
\* every process that was sent SIGTERM eventually acting on it
SpecShutdownFair ==
    /\ SpecShutdown
    /\ \A r \in Sups :
          WF_vars(shutdown_daemon(r) \/ wait_for_daemons(r) \/ terminate_cluster(r)
                    \/ start_return(r))
    /\ \A s \in Sups, d \in Daemons : WF_vars(daemon_sigterm(s, d))

\* ---- properties ----

IsPrefix(a, b) == Len(a) <= Len(b) /\ \A i \in 1..Len(a) : a[i] = b[i]

C2_ShutdownExactlyOnce ==
    \A s \in Sups :
        /\ runs[s] <= 1
        /\ (pc[s] = "exited" /\ cnt[s].roles > 0) => runs[s] = 1

\* the role path of a master ended by a cancellation no except clause catches
C2_Witness ==
    \E s \in Sups : pc[s] = "exited" /\ exc[s] = "CancelledError" /\ runs[s] = 1

\* C3: the daemons are launched in the order engine, communications API,
\* management API, and after a failed launch of the i-th daemon no later daemon
\* is launched: the role path has ended with a WazuhDaemonError.
C3_LaunchOrderAndAbort ==
    \A s \in Sups :
        /\ IsPrefix(launched[s], LaunchOrder)
        /\ \A i \in 1..Len(LaunchOrder) :
              outcome[s][LaunchOrder[i]] = "failed"
                  => /\ Len(launched[s]) = i
                     /\ exc[s] = "WazuhDaemonError"
                     /\ pc[s] \in {"shutdown", "exited", "killed"}

\* the communications API failed after the engine had started
C3_Witness ==
    \E s \in Sups :
        /\ outcome[s][ENGINE_DAEMON_NAME] = "started"
        /\ outcome[s][COMMS_API_DAEMON_NAME] = "failed"
        /\ launched[s] = <<ENGINE_DAEMON_NAME, COMMS_API_DAEMON_NAME>>
        /\ pc[s] = "exited"

\* C4 (as claimed): when a start invocation exits after a daemon-start error, none
\* of the daemons it had started is still alive.
C4_NoDaemonLeftAfterStartError ==
    \A s \in Sups :
        (pc[s] = "exited" /\ exc[s] = "WazuhDaemonError")
            => \A d \in Daemons : daemon[s][d] # "up"

\* C5: in the follower path the daemons are launched at most once, and whenever
\* the follower is connected after N connection losses it has slept N times,
\* made N + 1 connection attempts and launched the daemon set once, in its
\* first iteration.
C5_FollowerRetryCounts ==
    \A s \in Sups :
        role[s] = "worker"
            => /\ cnt[s].launchAll <= 1
               /\ pc[s] = "daemons" => cnt[s].attempts = 1
               /\ pc[s] = "gather"
                    => /\ cnt[s].sleeps = cnt[s].losses
                       /\ cnt[s].attempts = cnt[s].losses + 1
                       /\ cnt[s].launchAll = 1
                       /\ launched[s] = LaunchOrder

\* a follower connected again after two connection losses
C5_Witness ==
    \E s \in Sups : role[s] = "worker" /\ pc[s] = "gather" /\ cnt[s].losses = 2

\* C6: a follower enters the retry sleep only from a connection loss; once
\* anything else has ended its role path it sleeps no more and makes no more
\* connection attempts, has called shutdown_server once and only goes on to exit.
C6_OnlyConnectionLossRetries ==
    [][\A s \in Sups :
          role[s] = "worker"
              => /\ (pc[s] # "retry" /\ pc'[s] = "retry")
                      => /\ pc[s] = "gather"
                         /\ cnt'[s].losses = cnt[s].losses + 1
                         /\ exc'[s] = "none"
                 /\ exc'[s] # "none"
                      => /\ pc'[s] \in {"shutdown", "exited", "killed"}
                         /\ runs'[s] = 1
                         /\ cnt'[s].sleeps = cnt[s].sleeps
                         /\ cnt'[s].attempts = cnt[s].attempts]_vars

\* a follower whose role task failed with a plain error after one reconnect
C6_Witness ==
    \E s \in Sups :
        /\ role[s] = "worker"
        /\ exc[s] = "Exception"
        /\ pc[s] = "exited"
        /\ cnt[s].losses = 1
        /\ cnt[s].sleeps = 1
        /\ runs[s] = 1

\* start invocation s is alive and past the already-running check: it has
\* written its record
PastCheck(s) ==
    pc[s] \in {"keypair", "dispatch", "probe", "tasks", "daemons", "gather", "retry",
               "shutdown"}

\* C7 (as claimed): at any time at most one start invocation is past the
\* already-running check.
C7_SingleInstance == Cardinality({s \in Sups : PastCheck(s)}) <= 1

\* C8 (as claimed, for the engine's record): no lifecycle record of the engine
\* references a process that has exited.
C8_NoStaleRecord ==
    \A rec \in records : rec[1] = ENGINE_DAEMON_NAME => Alive(rec[2])

\* C8 (amended): a lifecycle record, the supervisor's or the engine's, is only
\* ever written for a process that is alive at that moment.
C8_RecordsWrittenForLiveProcesses ==
    [][\A rec \in records' \ records : rec[2] \in AlivePids']_vars

\* the engine's record next to its running process, and the supervisor's
C8_Witness ==
    \E s \in Sups :
        /\ <<ENGINE_DAEMON_NAME, DaemonPid(s, LaunchIndex(ENGINE_DAEMON_NAME))>> \in records
        /\ daemon[s][ENGINE_DAEMON_NAME] = "up"
        /\ <<SERVER_DAEMON_NAME, ServerPid(s)>> \in records

\* C9 (as claimed): a start invocation that has exited has left neither its
\* lifecycle record nor a live child behind.
C9_SessionDestroyedOnExit ==
    \A s \in Sups :
        pc[s] = "exited"
            => /\ <<SERVER_DAEMON_NAME, ServerPid(s)>> \notin records
               /\ \A d \in Daemons : daemon[s][d] # "up"

\* C10: while a start invocation that launched its daemons runs and no stop has
\* acted, the store holds the supervisor's record and, when the engine was
\* started, the engine's; and once a stop of such a started server has
\* completed, the store holds no record for any of the four daemon names.
C10_RecordsAfterStartAndStop ==
    /\ \A s \in Sups :
          (Started(s) /\ spc \in {"idle", "exited"})
              => /\ <<SERVER_DAEMON_NAME, ServerPid(s)>> \in records
                 /\ outcome[s][ENGINE_DAEMON_NAME] = "started"
                      => <<ENGINE_DAEMON_NAME,
                           DaemonPid(s, LaunchIndex(ENGINE_DAEMON_NAME))>> \in records
    /\ (spc = "done" /\ afterStart) => \A rec \in records : rec[1] \notin StatusNames

\* a stop of a started server that signalled the engine and ran to its end
C10_Witness ==
    /\ spc = "done"
    /\ afterStart
    /\ signalled[StopProc] = <<ENGINE_DAEMON_NAME>>
    /\ \E s \in Sups : outcome[s][MANAGEMENT_API_DAEMON_NAME] = "started"

\* C11 (as claimed): the shutdown sequence is never left by an error, whoever
\* runs it, and stop never raises: a record that references a dead pid does not
\* abort it.
C11_ShutdownNeverRaises ==
    /\ \A r \in Runners : sd[r] # "raised"
    /\ spc # "raised"

\* C12 (as claimed): shutdown_server called by the supervisor when all daemons
\* are already stopped produces no error and sends no signal.
C12_QuietShutdownIsNoOp ==
    \A s \in Sups : quiet[s] => (sd[s] # "raised" /\ signalled[s] = <<>>)

\* C13 (as claimed): a start invocation whose role path raised an error has
\* exited with code 1.
C13_RolePathErrorExitsOne ==
    \A s \in Sups :
        (pc[s] = "exited" /\ exc[s] \in {"Exception", "MemoryError", "WazuhDaemonError"})
            => exitcode[s] = Exit1

\* C13 (amended): a start invocation exits with code 1 when it ends before the
\* role path is dispatched (already running, configuration failure, an error
\* outside the try of line 383), when the error of the role path is one no except
\* clause catches, and when shutdown_server itself raises; it exits with code 0
\* when an except clause caught the error of the role path and shutdown_server
\* returned. stop exits with code 0 on a stopped instance and after its final
\* signal, with code 1 when it is left by an error.
C13_ExitCodes ==
    /\ \A s \in Sups :
           pc[s] = "exited" =>
              exitcode[s] = IF cnt[s].roles = 0 \/ sd[s] = "raised" \/ exc[s] \notin Handled
                              THEN Exit1 ELSE Exit0
    /\ spc \in {"exited", "done"} => exitcode[StopProc] = Exit0
    /\ spc = "raised" => exitcode[StopProc] = Exit1

\* an error of a role task was caught and logged, shutdown_server returned, and
\* the process exited with code 0
C13_Witness ==
    \E s \in Sups :
        pc[s] = "exited" /\ exc[s] = "Exception" /\ sd[s] = "done" /\ exitcode[s] = Exit0

\* C14: stop leaves with exit code 0, sends no signal and changes no record
\* exactly when it finds no record of a running supervisor; a supervisor is sent
\* SIGTERM only by stop, and only after stop's call of shutdown_server went
\* through the three daemons, saw none running, deleted the supervisor's record
\* and returned.
C14_StopSignalsAfterShutdown ==
    [][/\ (spc = "idle" /\ spc' # "idle")
            => /\ spc' = "exited" <=> get_wazuh_server_pid(SERVER_DAEMON_NAME) = {}
               /\ get_parent_pid(SERVER_DAEMON_NAME) = {} => spc' = "exited"
               /\ spc' = "exited"
                     => /\ exitcode'[StopProc] = Exit0
                        /\ sigterm' = sigterm
                        /\ records' = records
                        /\ signalled' = signalled
       /\ \A s \in Sups :
             (ServerPid(s) \notin sigterm /\ ServerPid(s) \in sigterm')
                => /\ spc = "shutdown" /\ spc' = "done"
                   /\ sd[StopProc] = "done"
                   /\ sdi[StopProc] = 3
                   /\ seenGone[StopProc]
                   /\ <<SERVER_DAEMON_NAME, ServerPid(s)>> \notin records]_vars

\* stop ran the whole sequence, sent its final signal, and the supervisor was
\* ended by it
C14_Witness ==
    /\ spc = "done"
    /\ sd[StopProc] = "done"
    /\ \E s \in Sups : pc[s] = "killed"

\* C15: each step of the signalling loop of shutdown_server handles the next name
\* of the order engine, management API, communications API; it signals that
\* daemon only when a record for it is found, deletes the engine's record in the
\* step that signals the engine, and deletes no other record.
C15_SignalOrderAndEngineRecord ==
    [][\A r \in Runners :
          (sd[r] = "daemons" /\ (sdi'[r] # sdi[r] \/ sd'[r] # sd[r]))
             => LET name == <<ENGINE_DAEMON_NAME, MANAGEMENT_API_DAEMON_NAME,
                              COMMS_API_DAEMON_NAME>>[sdi[r] + 1]
                    found == \E q \in records : q[1] = name
                    sent == signalled'[r] # signalled[r]
                IN  /\ sent => found /\ signalled'[r] = Append(signalled[r], name)
                    /\ sigterm' # sigterm => sent
                    /\ ~found => records' = records
                    /\ sd'[r] # "raised" => sdi'[r] = sdi[r] + 1
                    /\ records' \subseteq records
                    /\ \A q \in records \ records' :
                          q[1] = ENGINE_DAEMON_NAME /\ name = ENGINE_DAEMON_NAME /\ sent
                    /\ (sent /\ name = ENGINE_DAEMON_NAME)
                          => \E q \in records \ records' : q[2] \in sigterm']_vars

\* all three daemons had a record and were signalled; the engine's record is
\* gone, the other two are still in the store
C15_Witness ==
    \E r \in Runners :
        /\ signalled[r] = <<ENGINE_DAEMON_NAME, MANAGEMENT_API_DAEMON_NAME,
                            COMMS_API_DAEMON_NAME>>
        /\ get_parent_pid(ENGINE_DAEMON_NAME) = {}
        /\ get_parent_pid(MANAGEMENT_API_DAEMON_NAME) # {}
        /\ get_parent_pid(COMMS_API_DAEMON_NAME) # {}

\* C16 (as claimed): every connection attempt of a follower is preceded by its
\* own successful poll of the configuration channel.
C16_ProbePerIteration ==
    \A s \in Sups :
        (role[s] = "worker" /\ pc[s] = "gather")
            => cnt[s].polls - cnt[s].infos = cnt[s].attempts

\* C16 (amended): a follower runs the readiness loop once, before its retry loop:
\* whatever the number of connection attempts, the configuration channel has
\* been polled successfully exactly once, and a retry sleep is followed by the
\* construction of the network process, not by a poll.
C16_ProbeOncePerStart ==
    [][\A s \in Sups :
          role[s] = "worker" =>
             /\ pc[s] \in {"tasks", "daemons", "gather", "retry"}
                   => cnt[s].polls - cnt[s].infos = 1
             /\ pc[s] = "retry" => pc'[s] # "probe" /\ cnt'[s].polls = cnt[s].polls]_vars

\* a follower in its second connection attempt, after one successful poll
C16_Witness ==
    \E s \in Sups :
        /\ role[s] = "worker" /\ pc[s] = "gather"
        /\ cnt[s].losses = 1 /\ cnt[s].sleeps = 1 /\ cnt[s].attempts = 2
        /\ cnt[s].polls - cnt[s].infos = 1

\* C17: a call of start_daemon whose process is still running when the two
\* seconds end returns normally, and has written a record for it if and only if
\* the daemon is the engine; a call whose process exits with a non-zero code, or
\* whose spawn fails, raises WazuhDaemonError and writes no record; nothing else
\* raises it.
C17_LaunchClassification ==
    [][\A s \in Sups :
          launched'[s] # launched[s]
             => LET name == launched'[s][Len(launched'[s])]
                    rec == <<name, DaemonPid(s, LaunchIndex(name))>>
                    raised == exc'[s] = "WazuhDaemonError" /\ pc'[s] = "shutdown"
                IN  /\ launched'[s] = Append(launched[s], name)
                    /\ daemon'[s][name] = "up"
                          => /\ ~raised
                             /\ outcome'[s][name] = "started"
                             /\ rec \in records' <=> name = ENGINE_DAEMON_NAME
                    /\ outcome'[s][name] = "failed"
                          => /\ raised
                             /\ daemon'[s][name] # "up"
                             /\ records' = records
                             /\ rec \notin records'
                    /\ raised => outcome'[s][name] = "failed"]_vars

\* the engine and the communications API stayed up (only the engine has a
\* record), the management API failed and start_daemons raised
C17_Witness ==
    \E s \in Sups :
        /\ outcome[s][ENGINE_DAEMON_NAME] = "started"
        /\ outcome[s][COMMS_API_DAEMON_NAME] = "started"
        /\ outcome[s][MANAGEMENT_API_DAEMON_NAME] = "failed"
        /\ exc[s] = "WazuhDaemonError"
        /\ <<ENGINE_DAEMON_NAME, DaemonPid(s, 1)>> \in records
        /\ get_parent_pid(COMMS_API_DAEMON_NAME) = {}
        /\ get_parent_pid(MANAGEMENT_API_DAEMON_NAME) = {}

\* C20: a call of start_daemon whose process exits with code 0 within the two
\* seconds is classified neither started nor failed: it returns normally, writes
\* no record (not even for the engine), and start_daemons goes on to the next
\* daemon of its list.
C20_ExitZeroWithinWindow ==
    [][\A s \in Sups :
          (launched'[s] # launched[s]
             /\ outcome'[s][launched'[s][Len(launched'[s])]] = "exit0")
             => LET name == launched'[s][Len(launched'[s])]
                IN  /\ daemon'[s][name] = "dead"
                    /\ records' = records
                    /\ \A q \in records' : q[1] # name
                    /\ exc'[s] = "none"
                    /\ cnt'[s].idx = cnt[s].idx + 1
                    /\ pc'[s] = IF cnt'[s].idx < 3 THEN "daemons" ELSE "gather"]_vars

\* the engine exited with code 0 within the window, has no record, and the two
\* API daemons were launched after it
C20_Witness ==
    \E s \in Sups :
        /\ outcome[s][ENGINE_DAEMON_NAME] = "exit0"
        /\ launched[s] = LaunchOrder
        /\ outcome[s][COMMS_API_DAEMON_NAME] = "started"
        /\ outcome[s][MANAGEMENT_API_DAEMON_NAME] = "started"
        /\ get_parent_pid(ENGINE_DAEMON_NAME) = {}
        /\ pc[s] = "gather"

\* C18 (as claimed): when the readiness loop of a master returns, the number of
\* warnings logged is the number of failed polls, one less than the number of
\* polls.
C18_WarningPerFailedPoll ==
    \A s \in Sups :
        (role[s] = "master" /\ pc[s] = "tasks")
            => cnt[s].polls = cnt[s].warns + 1

\* C18 (amended): the readiness loop is left only by a successful poll (or by the
\* interruption of the process), never by a timeout; after k failed polls and
\* one success there have been k + 1 polls and k log lines at info level, one per
\* failed poll, and no warning; no role task is created and no daemon launched
\* before the successful poll.
C18_ReadinessGate ==
    [][\A s \in Sups :
          /\ pc[s] = "probe"
                => /\ cnt[s].polls = cnt[s].infos
                   /\ cnt[s].warns = 0
                   /\ pc'[s] \in {"probe", "tasks", "shutdown", "killed"}
                   /\ pc'[s] = "tasks"
                         => /\ cnt'[s].polls = cnt[s].polls + 1
                            /\ cnt'[s].infos = cnt[s].infos
                            /\ role[s] = "master" => cnt'[s].warns = 0
                   /\ (pc'[s] = "probe" /\ cnt'[s] # cnt[s])
                         => /\ cnt'[s].polls = cnt[s].polls + 1
                            /\ cnt'[s].infos = cnt[s].infos + 1
                            /\ cnt'[s].warns = 0
                   /\ pc'[s] \in {"shutdown", "killed"} => cnt'[s] = cnt[s]
          /\ (cnt[s].attempts > 0 \/ launched[s] # <<>> \/ cnt[s].launchAll > 0)
                => cnt[s].polls = cnt[s].infos + 1]_vars

\* the readiness loop returned after one failed and one successful poll: two
\* polls, one info line, no warning, nothing started yet
C18_Witness ==
    \E s \in Sups :
        /\ pc[s] = "tasks" /\ role[s] = "master"
        /\ cnt[s].polls = 2 /\ cnt[s].infos = 1 /\ cnt[s].warns = 0
        /\ cnt[s].attempts = 0 /\ launched[s] = <<>>

====
